---- MODULE Spec2Model ----
(***************************************************************************)
(* A model of dinker's image assembly: dinkerlib.BuildImage and the part   *)
(* of the command line front end (main0) that validates the configuration  *)
(* and calls it.                                                            *)
(*                                                                         *)
(* Go strings the code computes on are sequences of one-character strings *)
(* ("" is <<>>), so that the byte-wise comparison of sort.Slice, Def,      *)
(* strings.Contains, Sprintf and ParseInt are computed as the code         *)
(* computes them; media types and path components, which the code only     *)
(* copies and compares, are atoms.  A file's bytes are a tagged tuple.  A  *)
(* sha256 sum is the collision-free idealisation: the sum of x is a value  *)
(* that determines x.                                                      *)
(***************************************************************************)
EXTENDS Integers, Sequences, FiniteSets, TLC

----------------------------------------------------------------------------
(* Bounds of the model *)

\* longest environment list of a base image config
MaxBaseEnv == 2
\* largest number of pairs in the AddEnv map
MaxAddEnv == 2
\* longest list of port records
MaxPorts == 3
\* longest layer list / diffID list of a base manifest
MaxBaseLayers == 2
\* longest manifest list of a base index.json
MaxIndexEntries == 2
\* longest list of root file entries
MaxFiles == 2
\* number of BuildImage calls in one behaviour
MaxRuns == 2

----------------------------------------------------------------------------
(* Strings *)

\* byte value of a character, the order Go compares strings in
CharCode(c) ==
    CASE c = "-" -> 45 [] c = "/" -> 47
      [] c = "0" -> 48 [] c = "1" -> 49 [] c = "2" -> 50 [] c = "3" -> 51
      [] c = "4" -> 52 [] c = "5" -> 53 [] c = "6" -> 54 [] c = "7" -> 55
      [] c = "8" -> 56 [] c = "9" -> 57 [] c = "=" -> 61
      [] c = "A" -> 65 [] c = "B" -> 66 [] c = "C" -> 67
      [] c = "a" -> 97 [] c = "b" -> 98 [] c = "c" -> 99 [] c = "d" -> 100
      [] c = "o" -> 111 [] c = "p" -> 112 [] c = "t" -> 116 [] c = "u" -> 117
      [] OTHER -> 120

RECURSIVE StrLess(_, _)
\* a < b on Go strings: lexicographic on bytes
StrLess(a, b) ==
    IF b = <<>> THEN FALSE
    ELSE IF a = <<>> THEN TRUE
    ELSE IF CharCode(Head(a)) < CharCode(Head(b)) THEN TRUE
    ELSE IF CharCode(Head(a)) > CharCode(Head(b)) THEN FALSE
    ELSE StrLess(Tail(a), Tail(b))

RECURSIVE InsertSorted(_, _)
InsertSorted(x, s) ==
    IF s = <<>> THEN <<x>>
    ELSE IF StrLess(x, Head(s)) THEN <<x>> \o s
    ELSE <<Head(s)>> \o InsertSorted(x, Tail(s))

RECURSIVE SortStrings(_)
\* sort.Slice(env, func(i, j) bool { return env[i] < env[j] }): the ascending
\* arrangement (elements that compare equal are equal strings)
SortStrings(s) ==
    IF s = <<>> THEN <<>> ELSE InsertSorted(Head(s), SortStrings(Tail(s)))

Digits == <<"0", "1", "2", "3", "4", "5", "6", "7", "8", "9">>

RECURSIVE ItoaNat(_)
ItoaNat(n) ==
    IF n < 10 THEN <<Digits[n + 1]>>
    ELSE ItoaNat(n \div 10) \o <<Digits[(n % 10) + 1]>>

\* the %d verb of fmt.Sprintf
Itoa(n) == IF n < 0 THEN <<"-">> \o ItoaNat(0 - n) ELSE ItoaNat(n)

\* Def: the alternative when v is the zero value of its type (the empty string)
Def(v, alt) == IF v = <<>> THEN alt ELSE v

\* fmt.Sprintf("%s=%s", k, v)
EnvEntry(k, v) == k \o <<"=">> \o v

\* PortKey with the transport taken as it is given
PortKeyNoDefault(p) == Itoa(p.Port) \o <<"/">> \o p.Transport

\* fmt.Sprintf("%d/%s", p.Port, Def(p.Transport, "tcp"))
PortKey(p) == Itoa(p.Port) \o <<"/">> \o Def(p.Transport, <<"t", "c", "p">>)

----------------------------------------------------------------------------
(* Digests, descriptors, documents *)

MediaTypeImageManifest == "application/vnd.oci.image.manifest.v1+json"
MediaTypeImageConfig == "application/vnd.oci.image.config.v1+json"
MediaTypeImageLayerGzip == "application/vnd.oci.image.layer.v1.tar+gzip"
MediaTypeImageIndex == "application/vnd.oci.image.index.v1+json"

\* digest.NewDigest(digest.SHA256, h) after h has been written bytes b
NewDigest(b) == [algorithm |-> "sha256", hex |-> <<"sum", b>>]

\* the number of bytes of b
ByteLen(b) == <<"len", b>>

\* blobPath: blobs/<algorithm>/<hex>, as path components
blobPath(d) == <<"blobs", d.algorithm, d.hex>>

\* AbsPath.Join: the components of rel under p
Join(p, rel) == <<p>> \o rel

\* TarBytes that never has the end-of-archive blocks
TarBytesNoTrailer(entries, closed) == <<"tar", entries, FALSE>>

\* the bytes a tar.Writer has emitted for these entries, with the trailer
\* once closed
TarBytes(entries, closed) == <<"tar", entries, closed>>

\* the bytes a gzip.Writer emits for input b
Gzip(b) == <<"gz", b>>

RECURSIVE SetToSortedSeq(_)
\* the members of a set of strings in ascending order
SetToSortedSeq(S) ==
    IF S = {} THEN <<>>
    ELSE LET x == CHOOSE y \in S : \A z \in S : ~StrLess(z, y)
         IN <<x>> \o SetToSortedSeq(S \ {x})

\* json.Marshal of a map[string]string: the pairs in ascending key order
MarshalMap(m) ==
    LET ks == SetToSortedSeq(DOMAIN m)
    IN [i \in 1..Len(ks) |-> <<ks[i], m[ks[i]]>>]

\* json.Marshal of imagespec.Image, keys ordered: a list keeps its order, a
\* map is written in key order
MarshalImage(img) ==
    <<"json", "image",
      [architecture |-> img.Architecture,
       os |-> img.OS,
       config |-> [Env |-> img.Config.Env,
                   WorkingDir |-> img.Config.WorkingDir,
                   User |-> img.Config.User,
                   Entrypoint |-> img.Config.Entrypoint,
                   Cmd |-> img.Config.Cmd,
                   ExposedPorts |-> SetToSortedSeq(img.Config.ExposedPorts),
                   StopSignal |-> img.Config.StopSignal,
                   Labels |-> MarshalMap(img.Config.Labels)],
       rootfs |-> [type |-> img.RootFS.Type, diff_ids |-> img.RootFS.DiffIDs]]>>

\* json.Marshal of imagespec.Manifest
MarshalManifest(m) ==
    <<"json", "manifest",
      [schemaVersion |-> m.SchemaVersion, mediaType |-> m.MediaType,
       config |-> m.Config, layers |-> m.Layers]>>

\* json.Marshal of imagespec.Index
MarshalIndex(ix) ==
    <<"json", "index",
      [schemaVersion |-> ix.SchemaVersion, manifests |-> ix.Manifests]>>

\* json.Marshal of imagespec.ImageLayout
MarshalLayout(l) == <<"json", "layout", [imageLayoutVersion |-> l.Version]>>

\* canonicalJsonMarshal: marshal, unmarshal to plain maps and lists, marshal
\* again; the documents above are already written in key order
canonicalJsonMarshal(kind, sym) ==
    CASE kind = "image" -> MarshalImage(sym)
      [] kind = "manifest" -> MarshalManifest(sym)
      [] kind = "index" -> MarshalIndex(sym)
      [] kind = "layout" -> MarshalLayout(sym)
      [] kind = "hashData" -> <<"json", "hashData", sym>>

\* buildJson: the digest and the bytes of a document
buildJson(kind, contents) ==
    LET contents1 == canonicalJsonMarshal(kind, contents)
    IN [digest |-> NewDigest(contents1), bytes |-> contents1]

\* the zero imagespec.Image
ZeroImage ==
    [Architecture |-> <<>>, OS |-> <<>>,
     Config |-> [Env |-> <<>>, WorkingDir |-> <<>>, User |-> <<>>,
                 Entrypoint |-> <<>>, Cmd |-> <<>>, ExposedPorts |-> {},
                 StopSignal |-> <<>>, Labels |-> <<>>],
     RootFS |-> [Type |-> "", DiffIDs |-> <<>>]]

\* json.Unmarshal of a config blob into imagespec.Image
UnmarshalImage(b) ==
    LET d == b[3]
    IN [Architecture |-> d.architecture, OS |-> d.os,
        Config |-> [Env |-> d.config.Env, WorkingDir |-> d.config.WorkingDir,
                    User |-> d.config.User, Entrypoint |-> d.config.Entrypoint,
                    Cmd |-> d.config.Cmd,
                    ExposedPorts |-> {d.config.ExposedPorts[i] :
                                        i \in DOMAIN d.config.ExposedPorts},
                    StopSignal |-> d.config.StopSignal,
                    Labels |-> [k \in {d.config.Labels[i][1] :
                                         i \in DOMAIN d.config.Labels} |->
                                  (CHOOSE p \in {d.config.Labels[i] :
                                        i \in DOMAIN d.config.Labels} :
                                        p[1] = k)[2]]],
        RootFS |-> [Type |-> d.rootfs.type, DiffIDs |-> d.rootfs.diff_ids]]

\* json.Unmarshal of a manifest blob into imagespec.Manifest
UnmarshalManifest(b) ==
    LET d == b[3]
    IN [SchemaVersion |-> d.schemaVersion, MediaType |-> d.mediaType,
        Config |-> d.config, Layers |-> d.layers]

----------------------------------------------------------------------------
(* The values the inputs are drawn from *)

sA == <<"A">>
sB == <<"B">>
sC == <<"C">>
s1 == <<"1">>
s2 == <<"2">>
tcp == <<"t", "c", "p">>
udp == <<"u", "d", "p">>
amd64 == <<"a", "m", "d", "6", "4">>
linux == <<"l", "i", "n", "u", "x">>

\* the sequences over S of length at most n
SeqsUpTo(S, n) == UNION {[1..k -> S] : k \in 0..n}

\* the Go maps with at most n keys from K and values from V
MapsUpTo(K, V, n) ==
    UNION {[D -> V] : D \in {D \in SUBSET K : Cardinality(D) <= n}}

\* where output directories are made
DestDirs == {"/out1", "/out2"}

\* the path of the base archive in a build that has one
BasePath == <<"/", "b">>

\* the logical layers a base image is made of
BaseLayerIds == {1, 2}

\* the tar stream of base layer l: one directory
BaseLayerTar(l) ==
    TarBytes(<<[Typeflag |-> "dir", Name |-> <<"l", Digits[l + 1]>>,
                Mode |-> 493, Size |-> 0, Data |-> <<>>]>>, TRUE)

\* the descriptor of the blob with bytes b
Descriptor(mediaType, b) ==
    [mediaType |-> mediaType, digest |-> NewDigest(b), size |-> ByteLen(b)]

\* a base image config with the given process fields, before its diffIDs
BaseImage(arch, os, env, wd, user, entrypoint, cmd, ports, stop, labels) ==
    [Architecture |-> arch, OS |-> os,
     Config |-> [Env |-> env, WorkingDir |-> wd, User |-> user,
                 Entrypoint |-> entrypoint, Cmd |-> cmd, ExposedPorts |-> ports,
                 StopSignal |-> stop, Labels |-> labels],
     RootFS |-> [Type |-> "layers", DiffIDs |-> <<>>]]

\* a base config that sets nothing but the platform
PlainBase == BaseImage(amd64, linux, <<>>, <<>>, <<>>, <<>>, <<>>, {}, <<>>, <<>>)

\* a base config that sets every field
FullBase ==
    BaseImage(<<"a", "r", "m">>, <<"b", "s", "d">>, <<EnvEntry(sA, s1)>>,
              <<"/", "b">>, <<"b", "u">>, <<<<"/", "b", "e">>>>,
              <<<<"/", "o", "l", "d">>>>, {<<"2", "2", "/", "t", "c", "p">>},
              <<"B", "S">>, [k \in {sB} |-> s2])

\* a base manifest to build: its layers, the layers its config lists as
\* diffIDs, its config, and the blobs left out of the archive or stored
\* with other bytes
ManifestSpec(layers, diffs, cfg, missing) ==
    [layers |-> layers, diffs |-> diffs, cfg |-> cfg, missing |-> missing]

SpecConfigBytes(m) ==
    MarshalImage([m.cfg EXCEPT !.RootFS.DiffIDs =
                    [i \in 1..Len(m.diffs) |-> NewDigest(BaseLayerTar(m.diffs[i]))]])

SpecManifestBytes(m) ==
    MarshalManifest(
        [SchemaVersion |-> 2, MediaType |-> MediaTypeImageManifest,
         Config |-> Descriptor(MediaTypeImageConfig, SpecConfigBytes(m)),
         Layers |-> [i \in 1..Len(m.layers) |->
                       Descriptor(MediaTypeImageLayerGzip,
                                  Gzip(BaseLayerTar(m.layers[i])))]])

\* the blobs of the archive for one manifest, as <<digest, bytes>> pairs
SpecBlobs(m) ==
    (IF "manifest" \in m.missing THEN {}
     ELSE {<<NewDigest(SpecManifestBytes(m)),
             IF "manifestjson" \in m.missing THEN <<"junk">>
             ELSE SpecManifestBytes(m)>>})
    \cup (IF "config" \in m.missing THEN {}
          ELSE {<<NewDigest(SpecConfigBytes(m)), SpecConfigBytes(m)>>})
    \cup (IF "layer" \in m.missing THEN {}
          ELSE {<<NewDigest(Gzip(BaseLayerTar(m.layers[i]))),
                  IF "corrupt" \in m.missing THEN Gzip(<<"junk">>)
                  ELSE Gzip(BaseLayerTar(m.layers[i]))>> : i \in 1..Len(m.layers)})

\* an OCI archive: entries is a sequence of <<media type, manifest spec>>
MkArchive(indexState, entries) ==
    LET pairs == UNION {SpecBlobs(entries[i][2]) : i \in 1..Len(entries)}
    IN [index |->
          IF indexState = "ok"
          THEN MarshalIndex(
                 [SchemaVersion |-> 2,
                  Manifests |-> [i \in 1..Len(entries) |->
                      Descriptor(entries[i][1], SpecManifestBytes(entries[i][2]))]])
          ELSE <<indexState>>,
        blobs |-> [d \in {p[1] : p \in pairs} |->
                     (CHOOSE p \in pairs : p[1] = d)[2]]]

\* an archive of one image manifest
OneImage(m) == MkArchive("ok", <<<<MediaTypeImageManifest, m>>>>)

\* no file at the base path
NoFile == [index |-> <<"nofile">>, blobs |-> <<>>]

----------------------------------------------------------------------------
(* The build arguments and the files of the building system *)

\* BuildImageArgs with nothing set but the platform; DestDirPath is destDir
DefaultArgs ==
    [FromPath |-> <<>>, Architecture |-> amd64, Os |-> linux,
     Dirs |-> <<>>, Files |-> <<>>, ClearEnv |-> FALSE, AddEnv |-> <<>>,
     WorkingDir |-> <<>>, User |-> <<>>, Entrypoint |-> <<>>, Cmd |-> <<>>,
     Ports |-> <<>>, StopSignal |-> <<>>, Labels |-> <<>>]

\* the source files that exist on the building system: path -> size, data
SourceFiles ==
    [p \in {<<"/", "s", "/", "f">>, <<"/", "s", "/", "g">>, <<"/", "e", "/", "c">>} |->
        CASE p = <<"/", "s", "/", "f">> -> [size |-> 3, data |-> <<"f">>]
          [] p = <<"/", "s", "/", "g">> -> [size |-> 0, data |-> <<"g">>]
          [] OTHER -> [size |-> 2, data |-> <<"c">>]]

File(name, source, mode) == [Name |-> name, Source |-> source, Mode |-> mode]
Dir(name, mode, dirs, files) ==
    [Name |-> name, Mode |-> mode, Dirs |-> dirs, Files |-> files]

\* the working directory of the command line
Cwd == <<"/", "s">>

\* MakeAbsPath: filepath.Abs, a relative path taken from the working directory
MakeAbsPath(relOrAbs) ==
    IF relOrAbs # <<>> /\ relOrAbs[1] = "/" THEN relOrAbs
    ELSE IF relOrAbs = <<>> THEN Cwd
    ELSE Cwd \o <<"/">> \o relOrAbs

\* an object of the files array of the configuration file, a key that is
\* absent being the empty string
JsonFile(source, dest, name, mode) ==
    [source |-> source, dest |-> dest, name |-> name, mode |-> mode]

\* json.Unmarshal of such an object into BuildImageArgsFile: the keys name,
\* source and mode are read, any other key is passed over
UnmarshalFile(j) == File(j.name, MakeAbsPath(j.source), j.mode)

\* json.Unmarshal of the files array
UnmarshalFiles(js) == [i \in DOMAIN js |-> UnmarshalFile(js[i])]

FileF == File(<<>>, <<"/", "s", "/", "f">>, <<>>)
FileG == File(<<"g", "2">>, <<"/", "s", "/", "g">>, <<"7", "5", "5">>)

\* file entries, among them a missing source, a name with a slash, a mode
\* that is not octal
FileChoices ==
    {FileF, FileG,
     File(<<>>, <<"/", "s", "/", "x">>, <<>>),
     File(<<"a", "/", "b">>, <<"/", "s", "/", "f">>, <<>>),
     File(<<"h">>, <<"/", "s", "/", "f">>, <<"9">>)}

DirChoices ==
    {<<>>,
     <<Dir(<<"d">>, <<>>, <<Dir(<<"e">>, <<"7", "0", "0">>, <<>>, <<FileG>>)>>,
           <<FileF>>)>>,
     <<Dir(<<"d", "/">>, <<>>, <<>>, <<>>)>>,
     <<Dir(<<"d">>, <<"x">>, <<>>, <<>>)>>}

\* directory trees with an entry below the root that has a slash in its name
\* or a mode that is not octal
NestedDirChoices ==
    {<<Dir(<<"d">>, <<"7", "5", "5">>, <<>>,
           <<File(<<"a", "/", "b">>, <<"/", "s", "/", "f">>, <<>>)>>)>>,
     <<Dir(<<"d">>, <<>>, <<Dir(<<"e", "/", "f">>, <<>>, <<>>, <<FileF>>)>>, <<>>)>>,
     <<Dir(<<"d">>, <<>>, <<>>, <<File(<<"h">>, <<"/", "s", "/", "f">>, <<"9">>)>>)>>,
     <<Dir(<<"d">>, <<>>, <<Dir(<<"e">>, <<"r", "w", "x">>, <<>>, <<FileF>>)>>, <<>>)>>}

BaseEnvEntries == {EnvEntry(sA, s1), EnvEntry(sB, s2)}

PortChoices ==
    {[Port |-> 80, Transport |-> <<>>], [Port |-> 80, Transport |-> tcp],
     [Port |-> 53, Transport |-> udp]}

Input(caller, a, file, dests) ==
    [caller |-> caller, args |-> a, fromFile |-> file, dests |-> dests,
     configFiles |-> <<>>, fault |-> "none"]

\* a run of the command line on a configuration file: the Config it is
\* unmarshalled to
CliInput(a, js, file, dests) ==
    [caller |-> "cli", args |-> [a EXCEPT !.Files = UnmarshalFiles(js)],
     fromFile |-> file, dests |-> dests, configFiles |-> js, fault |-> "none"]

\* the files arrays of configuration files: a source alone, relative and
\* absolute, and a source with a dest
JsonFilesChoices ==
    {<<>>,
     <<JsonFile(<<"f">>, <<>>, <<>>, <<>>)>>,
     <<JsonFile(<<"/", "s", "/", "g">>, <<>>, <<>>, <<"7", "5", "5">>),
       JsonFile(<<"/", "e", "/", "c">>, <<"/", "e", "/", "c">>, <<>>, <<"7", "5", "5">>)>>}

\* builds that vary the environment of the base and of the arguments
EnvInputs ==
    {Input("lib",
           [DefaultArgs EXCEPT !.FromPath = BasePath, !.ClearEnv = c, !.AddEnv = m,
                               !.Labels = [k \in {sA, sB} |-> s1]],
           OneImage(ManifestSpec(<<1>>, <<1>>, [PlainBase EXCEPT !.Config.Env = e], {})),
           0) :
        c \in BOOLEAN, m \in MapsUpTo({sA, sB}, {s1, s2}, MaxAddEnv),
        e \in SeqsUpTo(BaseEnvEntries, MaxBaseEnv)}
    \cup {Input("lib", [DefaultArgs EXCEPT !.ClearEnv = c, !.AddEnv = m], NoFile, 0) :
        c \in BOOLEAN, m \in MapsUpTo({sA, sB}, {s1, s2}, MaxAddEnv)}

\* builds that vary the port list
PortInputs ==
    {Input("lib", [DefaultArgs EXCEPT !.Ports = ps], NoFile, 0) :
        ps \in SeqsUpTo(PortChoices, MaxPorts)}

\* builds on a base of one manifest, whose layer list and diffID list vary
LayerInputs ==
    {Input("lib", [DefaultArgs EXCEPT !.FromPath = BasePath, !.Files = <<FileF>>],
           OneImage(ManifestSpec(l, d, PlainBase, {})), 0) :
        l \in SeqsUpTo(BaseLayerIds, MaxBaseLayers),
        d \in SeqsUpTo(BaseLayerIds, MaxBaseLayers)}

\* builds whose new layer is, byte for byte, layer 1 of the base
SharedLayerInputs ==
    {Input("lib",
           [DefaultArgs EXCEPT !.FromPath = BasePath,
                               !.Dirs = <<Dir(<<"l", "1">>, <<"7", "5", "5">>, <<>>, <<>>)>>],
           OneImage(ManifestSpec(l, l, PlainBase, {})), 0) :
        l \in {<<1>>, <<2>>, <<2, 1>>}}

\* the entries a base index.json is made of
IndexEntryChoices ==
    {<<MediaTypeImageManifest, ManifestSpec(<<1>>, <<1>>, PlainBase, {})>>,
     <<MediaTypeImageManifest, ManifestSpec(<<2, 1>>, <<2, 1>>, FullBase, {})>>,
     <<MediaTypeImageIndex, ManifestSpec(<<2>>, <<2>>, FullBase, {})>>}

\* builds on a base whose index lists several entries
IndexInputs ==
    {Input("lib", [DefaultArgs EXCEPT !.FromPath = BasePath],
           MkArchive("ok", es), 0) :
        es \in SeqsUpTo(IndexEntryChoices, MaxIndexEntries)}

\* builds on a base that cannot be read
BrokenInputs ==
    {Input("lib", [DefaultArgs EXCEPT !.FromPath = BasePath], f, 0) :
        f \in {NoFile, [index |-> <<"nottar">>, blobs |-> <<>>],
               MkArchive("absent", <<>>), MkArchive("malformed", <<>>)}
               \cup {OneImage(ManifestSpec(<<1, 2>>, <<1, 2>>, PlainBase, {x})) :
                       x \in {"manifest", "manifestjson", "config", "layer"}}}

\* builds on a base whose layer files do not hold the bytes their name and
\* their descriptor tell
CorruptInputs ==
    {Input("lib", [DefaultArgs EXCEPT !.FromPath = BasePath, !.Files = fs],
           OneImage(ManifestSpec(<<1>>, <<1>>, PlainBase, {"corrupt"})), 0) :
        fs \in {<<>>, <<FileF>>}}

\* builds of a file or a directory whose mode string is an octal number
\* with a sign or of more than four digits
ModeInputs ==
    {Input("lib", [DefaultArgs EXCEPT !.Files = <<File(<<"h">>, <<"/", "s", "/", "f">>, m)>>],
           NoFile, 0) :
        m \in {<<"-", "6", "4", "4">>, <<"7", "7", "7", "7", "7">>, <<"7", "7", "7", "7">>}}
    \cup {Input("lib", [DefaultArgs EXCEPT !.Dirs = <<Dir(<<"d">>, m, <<>>, <<>>)>>],
                 NoFile, 0) :
             m \in {<<"-", "7", "5", "5">>, <<"1", "0", "0", "0", "0">>}}

\* builds with a directory that has no name, or with two directories, or a
\* file and a directory, of one name
SameNameInputs ==
    {Input("lib", [DefaultArgs EXCEPT !.Files = fs, !.Dirs = ds], NoFile, 0) :
        fs \in {<<>>, <<FileF>>},
        ds \in {<<Dir(<<>>, <<>>, <<>>, <<FileG>>)>>,
                <<Dir(<<"f">>, <<>>, <<>>, <<>>), Dir(<<"f">>, <<>>, <<>>, <<>>)>>}}

\* builds that vary the overrides of the fields a base can supply
InheritedInputs ==
    {Input("lib",
           [DefaultArgs EXCEPT !.FromPath = b[1], !.Architecture = ar, !.Os = os,
                               !.WorkingDir = wd, !.User = us],
           b[2], 0) :
        b \in {<<<<>>, NoFile>>,
               <<BasePath, OneImage(ManifestSpec(<<1>>, <<1>>, PlainBase, {}))>>,
               <<BasePath, OneImage(ManifestSpec(<<1>>, <<1>>, FullBase, {}))>>},
        ar \in {<<>>, amd64}, os \in {<<>>, linux},
        wd \in {<<>>, <<"/", "w">>}, us \in {<<>>, <<"u">>}}

\* builds that vary the fields a base never supplies
OverrideInputs ==
    {Input("lib",
           [DefaultArgs EXCEPT !.FromPath = b[1], !.Entrypoint = en, !.Cmd = cm,
                               !.StopSignal = st, !.Labels = la, !.Ports = ps],
           b[2], 0) :
        b \in {<<<<>>, NoFile>>,
               <<BasePath, OneImage(ManifestSpec(<<1>>, <<1>>, PlainBase, {}))>>,
               <<BasePath, OneImage(ManifestSpec(<<1>>, <<1>>, FullBase, {}))>>},
        en \in {<<>>, <<<<"/", "e">>>>}, cm \in {<<>>, <<<<"/", "c">>>>},
        st \in {<<>>, <<"T">>}, la \in {<<>>, [k \in {sA} |-> s1]},
        ps \in {<<>>, <<[Port |-> 80, Transport |-> <<>>]>>}}

\* builds that vary the files and directories of the new layer
TreeInputs ==
    {Input("lib", [DefaultArgs EXCEPT !.Files = fs, !.Dirs = ds], NoFile, 0) :
        fs \in SeqsUpTo(FileChoices, MaxFiles), ds \in DirChoices}

\* builds whose directories hold an entry that is refused
NestedInputs ==
    {Input("lib", [DefaultArgs EXCEPT !.Files = fs, !.Dirs = ds], NoFile, 0) :
        fs \in {<<>>, <<FileG>>}, ds \in NestedDirChoices}

\* the operations of the system that a build can find failing
Faults ==
    {"MkdirAll", "oci-layout", "CreateTemp", "Close", "Seek", "writeLayer",
     "copyLayer", "writeConfig", "writeManifest", "writeIndex"}

\* builds in which one operation of the system fails
FaultInputs ==
    {[Input(c, [DefaultArgs EXCEPT !.FromPath = BasePath, !.Files = <<FileF>>],
            OneImage(ManifestSpec(<<1>>, <<1>>, PlainBase, {})), 1)
        EXCEPT !.fault = f] : c \in {"lib", "cli"}, f \in Faults}

\* runs of the command line: its Config has no directories
CliInputs ==
    {CliInput([DefaultArgs EXCEPT !.FromPath = b[1], !.Architecture = ar, !.Os = os],
              js, b[2], n) :
        b \in {<<<<>>, NoFile>>, <<BasePath, NoFile>>,
               <<BasePath, OneImage(ManifestSpec(<<1>>, <<1>>, PlainBase, {}))>>},
        ar \in {<<>>, amd64}, os \in {<<>>, linux},
        js \in JsonFilesChoices, n \in 0..1}

Inputs ==
    EnvInputs \cup PortInputs \cup LayerInputs \cup IndexInputs \cup BrokenInputs
    \cup InheritedInputs \cup OverrideInputs \cup TreeInputs \cup NestedInputs
    \cup SharedLayerInputs \cup FaultInputs \cup CorruptInputs \cup ModeInputs
    \cup SameNameInputs
    \cup CliInputs

----------------------------------------------------------------------------
(* The layer: writeDestFile and buildDestDir *)

\* ContainsSlash that finds no slash in any name
NoSlash(s) == FALSE

\* strings.Contains(s, "/")
ContainsSlash(s) == \E i \in 1..Len(s) : s[i] = "/"

RECURSIVE StripTrailingSlashes(_)
StripTrailingSlashes(s) ==
    IF s # <<>> /\ s[Len(s)] = "/"
    THEN StripTrailingSlashes(SubSeq(s, 1, Len(s) - 1))
    ELSE s

\* Filename that gives the whole path
FilenameWholePath(p) == p

\* AbsPath.Filename: filepath.Base, the last element of the path
Filename(p) ==
    IF p = <<>> THEN <<".">>
    ELSE LET t == StripTrailingSlashes(p)
             cut == {i \in 1..Len(t) : t[i] = "/"}
             last == IF cut = {} THEN 0 ELSE CHOOSE i \in cut : \A j \in cut : j <= i
         IN IF t = <<>> THEN <<"/">> ELSE SubSeq(t, last + 1, Len(t))

OctalDigits == {"0", "1", "2", "3", "4", "5", "6", "7"}

RECURSIVE OctalValue(_)
\* the value of a string of octal digits
OctalValue(s) ==
    IF s = <<>> THEN 0
    ELSE 8 * OctalValue(SubSeq(s, 1, Len(s) - 1)) + (CharCode(s[Len(s)]) - 48)

\* ParseInt that takes every string for a number
ParseIntAny(s) == [ok |-> TRUE, val |-> 0]

\* strconv.ParseInt(s, 8, 32): an optional sign, then octal digits, the value
\* within 32 bits signed
ParseInt(s) ==
    LET neg == s # <<>> /\ s[1] = "-"
        signed == s # <<>> /\ s[1] \in {"+", "-"}
        ds == IF signed THEN Tail(s) ELSE s
        syntax == ds # <<>> /\ \A i \in 1..Len(ds) : ds[i] \in OctalDigits
        un == IF syntax THEN OctalValue(ds) ELSE 0
        range == IF neg THEN un - 1 <= 2147483647 ELSE un <= 2147483647
    IN [ok |-> syntax /\ range, val |-> IF neg THEN 0 - un ELSE un]

\* the path of an entry named name under parentPath
DestPath(parentPath, name) ==
    IF parentPath = <<>> THEN name ELSE parentPath \o <<"/">> \o name

\* the outcome of a step of the layer: the error ("" for nil) and the tar
\* entries written
Wrote(err, entries) == [err |-> err, entries |-> entries]

\* writeDestFile: the header and the data of one file
writeDestFile(parentPath, f) ==
    LET destName == Def(f.Name, Filename(f.Source))
        destPath == DestPath(parentPath, destName)
        mode == ParseInt(Def(f.Mode, <<"6", "4", "4">>))
    IN IF ContainsSlash(f.Name) THEN Wrote("name contains slashes", <<>>)
       ELSE IF ~mode.ok THEN Wrote("mode is not valid octal", <<>>)
       ELSE IF f.Source \notin DOMAIN SourceFiles
            THEN Wrote("error looking up metadata for layer file", <<>>)
       ELSE Wrote("", <<[Typeflag |-> "reg", Name |-> destPath, Mode |-> mode.val,
                           Size |-> SourceFiles[f.Source].size,
                           Data |-> SourceFiles[f.Source].data]>>)

RECURSIVE buildDestDir(_, _)
RECURSIVE buildDirs(_, _)
RECURSIVE writeFiles(_, _)

\* the loop over child (or root) directories, ended by the first error
buildDirs(parentPath, dirs) ==
    IF dirs = <<>> THEN Wrote("", <<>>)
    ELSE LET first == buildDestDir(parentPath, Head(dirs))
             rest == buildDirs(parentPath, Tail(dirs))
         IN IF first.err # "" THEN first
            ELSE Wrote(rest.err, first.entries \o rest.entries)

\* the loop over child (or root) files, ended by the first error
writeFiles(parentPath, files) ==
    IF files = <<>> THEN Wrote("", <<>>)
    ELSE LET first == writeDestFile(parentPath, Head(files))
             rest == writeFiles(parentPath, Tail(files))
         IN IF first.err # "" THEN first
            ELSE Wrote(rest.err, first.entries \o rest.entries)

\* buildDestDir that writes the files of a directory before its directories
buildDestDirFilesFirst(parentPath, d) ==
    LET destPath == DestPath(parentPath, d.Name)
        mode == ParseInt(Def(d.Mode, <<"6", "4", "4">>))
        header == <<[Typeflag |-> "dir", Name |-> destPath, Mode |-> mode.val,
                     Size |-> 0, Data |-> <<>>]>>
        ds == buildDirs(destPath, d.Dirs)
        fs == writeFiles(destPath, d.Files)
    IN IF ContainsSlash(d.Name) THEN Wrote("name contains slashes", <<>>)
       ELSE IF ~mode.ok THEN Wrote("mode is not valid octal", <<>>)
       ELSE IF fs.err # "" THEN Wrote(fs.err, header \o fs.entries)
       ELSE Wrote(ds.err, header \o fs.entries \o ds.entries)

\* buildDestDir with the default mode 755
buildDestDirDefault755(parentPath, d) ==
    LET destPath == DestPath(parentPath, d.Name)
        mode == ParseInt(Def(d.Mode, <<"7", "5", "5">>))
        header == <<[Typeflag |-> "dir", Name |-> destPath, Mode |-> mode.val,
                     Size |-> 0, Data |-> <<>>]>>
        ds == buildDirs(destPath, d.Dirs)
        fs == writeFiles(destPath, d.Files)
    IN IF ContainsSlash(d.Name) THEN Wrote("name contains slashes", <<>>)
       ELSE IF ~mode.ok THEN Wrote("mode is not valid octal", <<>>)
       ELSE IF ds.err # "" THEN Wrote(ds.err, header \o ds.entries)
       ELSE Wrote(fs.err, header \o ds.entries \o fs.entries)

\* buildDestDir: the header of the directory, its child directories, its files
buildDestDir(parentPath, d) ==
    LET destPath == DestPath(parentPath, d.Name)
        mode == ParseInt(Def(d.Mode, <<"6", "4", "4">>))
        header == <<[Typeflag |-> "dir", Name |-> destPath, Mode |-> mode.val,
                     Size |-> 0, Data |-> <<>>]>>
        ds == buildDirs(destPath, d.Dirs)
        fs == writeFiles(destPath, d.Files)
    IN IF ContainsSlash(d.Name) THEN Wrote("name contains slashes", <<>>)
       ELSE IF ~mode.ok THEN Wrote("mode is not valid octal", <<>>)
       ELSE IF ds.err # "" THEN Wrote(ds.err, header \o ds.entries)
       ELSE Wrote(fs.err, header \o ds.entries \o fs.entries)

----------------------------------------------------------------------------
(* The image config: environment, ports, inherited and overriding fields *)

\* the orders a range over a map with keys S can visit them in
Orders(S) ==
    {o \in [1..Cardinality(S) -> S] :
        \A i, j \in 1..Cardinality(S) : i # j => o[i] # o[j]}

\* ComposeEnv without the sort
ComposeEnvUnsorted(baseEnv, clearEnv, addEnv, order) ==
    (IF clearEnv THEN <<>> ELSE baseEnv)
    \o [i \in 1..Len(order) |-> EnvEntry(order[i], addEnv[order[i]])]

\* ComposeEnv that leaves out a pair the base list already has
ComposeEnvDedup(baseEnv, clearEnv, addEnv, order) ==
    LET base == IF clearEnv THEN <<>> ELSE baseEnv
        add == [i \in 1..Len(order) |-> EnvEntry(order[i], addEnv[order[i]])]
    IN SortStrings(base \o SelectSeq(add, LAMBDA e : \A i \in 1..Len(base) : base[i] # e))

\* the environment: the base list unless cleared, one KEY=VALUE per AddEnv
\* pair in the order the range visits them, then sorted
ComposeEnv(baseEnv, clearEnv, addEnv, order) ==
    SortStrings((IF clearEnv THEN <<>> ELSE baseEnv)
                \o [i \in 1..Len(order) |-> EnvEntry(order[i], addEnv[order[i]])])

\* the exposed ports: a map keyed by port/transport
ComposePorts(ports) == {PortKey(ports[i]) : i \in 1..Len(ports)}

\* ComposeImage with the cmd falling back to the base image's
ComposeImageInheritCmd(a, from, env, diffIds) ==
    [Architecture |-> Def(a.Architecture, from.Architecture),
     OS |-> Def(a.Os, from.OS),
     Config |-> [Env |-> env,
                 WorkingDir |-> Def(a.WorkingDir, from.Config.WorkingDir),
                 User |-> Def(a.User, from.Config.User),
                 Entrypoint |-> a.Entrypoint,
                 Cmd |-> Def(a.Cmd, from.Config.Cmd),
                 ExposedPorts |-> ComposePorts(a.Ports),
                 StopSignal |-> a.StopSignal,
                 Labels |-> a.Labels],
     RootFS |-> [Type |-> "layers", DiffIDs |-> diffIds]]

\* ComposeImage with the working directory and the user of the arguments alone
ComposeImageOverrideOnly(a, from, env, diffIds) ==
    [Architecture |-> Def(a.Architecture, from.Architecture),
     OS |-> Def(a.Os, from.OS),
     Config |-> [Env |-> env,
                 WorkingDir |-> a.WorkingDir,
                 User |-> a.User,
                 Entrypoint |-> a.Entrypoint,
                 Cmd |-> a.Cmd,
                 ExposedPorts |-> ComposePorts(a.Ports),
                 StopSignal |-> a.StopSignal,
                 Labels |-> a.Labels],
     RootFS |-> [Type |-> "layers", DiffIDs |-> diffIds]]

\* the imagespec.Image handed to buildJson
ComposeImage(a, from, env, diffIds) ==
    [Architecture |-> Def(a.Architecture, from.Architecture),
     OS |-> Def(a.Os, from.OS),
     Config |-> [Env |-> env,
                 WorkingDir |-> Def(a.WorkingDir, from.Config.WorkingDir),
                 User |-> Def(a.User, from.Config.User),
                 Entrypoint |-> a.Entrypoint,
                 Cmd |-> a.Cmd,
                 ExposedPorts |-> ComposePorts(a.Ports),
                 StopSignal |-> a.StopSignal,
                 Labels |-> a.Labels],
     RootFS |-> [Type |-> "layers", DiffIDs |-> diffIds]]

\* the imagespec.Manifest handed to buildJson
ComposeManifest(config, layers) ==
    [SchemaVersion |-> 2, MediaType |-> MediaTypeImageManifest,
     Config |-> [mediaType |-> MediaTypeImageConfig, digest |-> config.digest,
                 size |-> ByteLen(config.bytes)],
     Layers |-> layers]

\* the imagespec.Index written as index.json
ComposeIndex(manifest) ==
    [SchemaVersion |-> 2,
     Manifests |-> <<[mediaType |-> MediaTypeImageManifest,
                      digest |-> manifest.digest,
                      size |-> ByteLen(manifest.bytes)]>>]

\* main0's checks of the configuration: the error, "" when it goes on to build
Main0Error(config, nDests, fromExists) ==
    IF config.FromPath = <<>> /\ config.Os = <<>> /\ config.Architecture = <<>>
    THEN "missing FROM ref in config"
    ELSE IF Len(config.Files) = 0 THEN "missing files to add in config"
    ELSE IF nDests = 0 THEN "missing dest in config"
    ELSE IF config.FromPath # <<>> /\ ~fromExists
    THEN "no FROM image exists, and no pull ref configured to pull from"
    ELSE ""

----------------------------------------------------------------------------
(* The state *)

VARIABLES
    caller,        \* "cli": main0 calls BuildImage; "lib": a direct call
    args,          \* the BuildImageArgs (for the cli, the Config they come from)
    dests,         \* the number of dests of the cli Config
    configFiles,   \* the files array of the configuration file of the cli
    fromFile,      \* the file at the base path
    fault,         \* the operation of the system that fails in this build
    destDir,       \* args.DestDirPath
    pc,            \* the position in main0 / BuildImage
    hashData,      \* path -> contents or hex digest
    disk,          \* the files of the output directories: path -> bytes
    writes,        \* the output paths written by this call, in order
    tmpLayer,      \* the scratch file of the new layer
    destTar,       \* the entries written to the tar writer
    fi,            \* the next root file or root directory
    layerMetas,    \* the layer descriptors of the manifest
    layerDiffIds,  \* the diffIDs of the config
    opened,        \* the paths opened for reading at and inside the base archive
    index,         \* the manifests of the base index.json
    mi,            \* the next entry of index
    manifest,      \* the base manifest being incorporated
    li,            \* the next layer of manifest
    fromConfig,    \* the base image config
    rangeOrder,    \* the order the range over args.AddEnv visited its keys in
    image,         \* the image config composed
    imageConfig,   \* its digest and bytes
    imageManifest, \* the digest and bytes of the manifest
    hash,          \* the hash returned
    err,           \* the error returned, "" for nil
    run,           \* the number of this call
    prev           \* the results of the calls before

inputVars == <<caller, args, dests, configFiles, fromFile, fault>>
outVars == <<hashData, disk, writes>>
layerVars == <<destTar, fi, layerMetas, layerDiffIds>>
fromVars == <<opened, index, mi, manifest, li, fromConfig>>
docVars == <<rangeOrder, image, imageConfig, imageManifest>>
retVars == <<hash, err>>
runVars == <<run, prev>>

vars == <<inputVars, destDir, pc, outVars, tmpLayer, layerVars, fromVars,
          docVars, retVars, runVars>>

NoDoc == [digest |-> NewDigest(<<"none">>), bytes |-> <<"none">>]
NoManifest == [SchemaVersion |-> 0, MediaType |-> "", Config |-> <<>>, Layers |-> <<>>]

\* the locals of BuildImage before its first statement
Fresh ==
    /\ hashData = <<>>
    /\ writes = <<>>
    /\ tmpLayer = <<"none">>
    /\ destTar = <<>>
    /\ fi = 1
    /\ layerMetas = <<>>
    /\ layerDiffIds = <<>>
    /\ opened = <<>>
    /\ index = <<>>
    /\ mi = 1
    /\ manifest = NoManifest
    /\ li = 1
    /\ fromConfig = ZeroImage
    /\ rangeOrder = <<>>
    /\ image = ZeroImage
    /\ imageConfig = NoDoc
    /\ imageManifest = NoDoc
    /\ hash = <<>>
    /\ err = ""

Init ==
    /\ \E in \in Inputs :
        /\ caller = in.caller
        /\ args = in.args
        /\ dests = in.dests
        /\ configFiles = in.configFiles
        /\ fault = in.fault
        /\ fromFile = in.fromFile
    /\ destDir \in DestDirs
    /\ pc = IF caller = "cli" THEN "main0" ELSE "BuildImage"
    /\ disk = <<>>
    /\ Fresh
    /\ run = 1
    /\ prev = <<>>

----------------------------------------------------------------------------
(* Writing the output directory *)

\* f with key k set to v
Put(f, k, v) == (k :> v) @@ f

\* MemoryHashData that records nothing
MemoryHashDataNone(hd, dir, name, contents) == hd

\* writeMemory(name, contents): the hash data after it
MemoryHashData(hd, dir, name, contents) ==
    Put(hd, Join(dir, name), <<"bytes", contents>>)

\* writeBlob(digest, contents): the hash data after it
BlobHashData(hd, dir, digest, contents) ==
    MemoryHashData(Put(hd, blobPath(digest), <<"bytes", contents>>),
                   dir, blobPath(digest), contents)

\* writeBlobReader(digest, size, reader): the hash data after it has copied
\* the reader's bytes b
ReaderHashData(hd, dir, digest, b) ==
    Put(hd, Join(dir, blobPath(digest)), <<"hex", <<"sum", b>>>>)

\* the file at path p written with bytes b
WriteFile(p, b) ==
    /\ disk' = Put(disk, p, b)
    /\ writes' = Append(writes, p)

\* a write to path p that failed: the file is not made, or is left cut short
FailedWrite(p) ==
    /\ \E left \in BOOLEAN :
          disk' = IF left THEN Put(disk, p, <<"partial">>) ELSE disk
    /\ writes' = writes

\* Fail that returns a hash next to the error
FailWithHash(msg) ==
    /\ pc' = "failed"
    /\ err' = msg
    /\ hash' = <<"hex", <<"sum", msg>>>>
    /\ tmpLayer' = IF tmpLayer[1] = "file" THEN <<"removed">> ELSE tmpLayer

\* Fail that leaves the scratch file where it is
FailKeepTemp(msg) ==
    /\ pc' = "failed"
    /\ err' = msg
    /\ hash' = <<>>
    /\ tmpLayer' = tmpLayer

\* a return with an error: the hash is empty and the deferred removal of the
\* scratch file runs
Fail(msg) ==
    /\ pc' = "failed"
    /\ err' = msg
    /\ hash' = <<>>
    /\ tmpLayer' = IF tmpLayer[1] = "file" THEN <<"removed">> ELSE tmpLayer

\* panic(err): the deferred removal of the scratch file runs and the call
\* returns nothing
Panic ==
    /\ pc' = "panicked"
    /\ tmpLayer' = IF tmpLayer[1] = "file" THEN <<"removed">> ELSE tmpLayer
    /\ UNCHANGED retVars

\* sha256.Size: the bytes of a sha256 sum
Sha256Size == 32

\* the characters of the slice hash[:8]
ShortHashLen == 8

\* hex.EncodedLen: two characters for a byte
EncodedLen(n) == n * 2

\* the characters hex.EncodeToString writes
HexTable ==
    {"0", "1", "2", "3", "4", "5", "6", "7", "8", "9", "a", "b", "c", "d", "e", "f"}

\* len(hash) of a returned hash: the empty string, or the encoding of a sum
HashLen(h) == IF h = <<>> THEN 0 ELSE EncodedLen(Sha256Size)

\* the characters a returned hash is made of
HashChars(h) == IF h = <<>> THEN {} ELSE HexTable

\* BuildHash that gives the empty string
BuildHashEmpty(hd) == <<>>

\* the build hash: the hex sha256 of the serialized hash data
BuildHash(hd) == <<"hex", <<"sum", canonicalJsonMarshal("hashData", hd)>>>>

----------------------------------------------------------------------------
(* main0 *)

\* main0 finds the configuration wanting and returns its error
Main0Rejects ==
    /\ pc = "main0"
    /\ Main0Error(args, dests, fromFile # NoFile) # ""
    /\ pc' = "rejected"
    /\ err' = Main0Error(args, dests, fromFile # NoFile)
    /\ UNCHANGED <<inputVars, destDir, outVars, tmpLayer, layerVars, fromVars,
                   docVars, hash, runVars>>

\* main0 makes the temporary directory and calls BuildImage; its Config has
\* no directories to hand over
Main0Builds ==
    /\ pc = "main0"
    /\ Main0Error(args, dests, fromFile # NoFile) = ""
    /\ pc' = "BuildImage"
    /\ UNCHANGED <<inputVars, destDir, outVars, tmpLayer, layerVars, fromVars,
                   docVars, retVars, runVars>>

\* main0 gets an error from BuildImage and returns it; its temporary
\* directory is removed
Main0Fails ==
    /\ pc = "failed"
    /\ caller = "cli"
    /\ pc' = "rejected"
    /\ err' = "error building image"
    /\ disk' = [p \in {q \in DOMAIN disk : q[1] # destDir} |-> disk[p]]
    /\ UNCHANGED <<inputVars, destDir, hashData, writes, tmpLayer, layerVars,
                   fromVars, docVars, hash, runVars>>

\* main0 gets a hash from BuildImage: for its dests it slices hash[:8], which
\* panics on a shorter string, and pushes the image
Main0Dests ==
    /\ pc = "done"
    /\ caller = "cli"
    /\ pc' = IF HashLen(hash) < ShortHashLen THEN "panicked" ELSE "pushed"
    /\ UNCHANGED <<inputVars, destDir, outVars, tmpLayer, layerVars, fromVars,
                   docVars, retVars, runVars>>

----------------------------------------------------------------------------
(* BuildImage *)

\* the position after the scratch file is made or a root entry is written
AfterEntry(i) ==
    IF i <= Len(args.Files) + Len(args.Dirs) THEN "entries" ELSE "close"

\* the staging directory and the layout file
WriteLayout ==
    /\ pc = "BuildImage"
    /\ IF fault = "MkdirAll"
       THEN /\ Fail("error creating staging dir for image")
            /\ UNCHANGED outVars
       ELSE /\ hashData' = MemoryHashData(<<>>, destDir, <<"oci-layout">>,
                        canonicalJsonMarshal("layout", [Version |-> <<"1", ".", "0", ".", "0">>]))
            /\ IF fault = "oci-layout"
               THEN /\ FailedWrite(Join(destDir, <<"oci-layout">>))
                    /\ Fail("error writing tar file")
               ELSE /\ WriteFile(Join(destDir, <<"oci-layout">>),
                         canonicalJsonMarshal("layout", [Version |-> <<"1", ".", "0", ".", "0">>]))
                    /\ pc' = "CreateTemp"
                    /\ UNCHANGED <<tmpLayer, retVars>>
    /\ UNCHANGED <<inputVars, destDir, layerVars, fromVars, docVars, runVars>>

\* the scratch file of the new layer, its removal deferred
CreateTemp ==
    /\ pc = "CreateTemp"
    /\ IF fault = "CreateTemp"
       THEN Fail("error creating temp file for new layer")
       ELSE /\ tmpLayer' = <<"file", <<"partial">>>>
            /\ pc' = AfterEntry(1)
            /\ UNCHANGED retVars
    /\ UNCHANGED <<inputVars, destDir, outVars, layerVars, fromVars, docVars,
                   runVars>>

\* one turn of the loops over args.Files and then args.Dirs
WriteRootEntry ==
    /\ pc = "entries"
    /\ LET r == IF fi <= Len(args.Files)
                THEN writeDestFile(<<>>, args.Files[fi])
                ELSE buildDestDir(<<>>, args.Dirs[fi - Len(args.Files)])
       IN /\ destTar' = destTar \o r.entries
          /\ IF r.err # ""
             THEN /\ Fail(r.err)
                  /\ fi' = fi
             ELSE /\ pc' = AfterEntry(fi + 1)
                  /\ fi' = fi + 1
                  /\ UNCHANGED <<tmpLayer, retVars>>
    /\ UNCHANGED <<inputVars, destDir, outVars, layerMetas, layerDiffIds,
                   fromVars, docVars, runVars>>

\* the tar writer and the gzip writer closed, the two digests taken
CloseLayer ==
    /\ pc = "close"
    /\ IF fault = "Close"
       THEN /\ Fail("error closing layer tar")
            /\ UNCHANGED <<layerMetas, layerDiffIds>>
       ELSE /\ tmpLayer' = <<"file", Gzip(TarBytes(destTar, TRUE))>>
            /\ layerMetas' = Append(layerMetas,
                   [mediaType |-> MediaTypeImageLayerGzip,
                    digest |-> NewDigest(Gzip(TarBytes(destTar, TRUE))),
                    size |-> ByteLen(Gzip(TarBytes(destTar, TRUE)))])
            /\ layerDiffIds' = Append(layerDiffIds, NewDigest(TarBytes(destTar, TRUE)))
            /\ pc' = "writeLayer"
            /\ UNCHANGED retVars
    /\ UNCHANGED <<inputVars, destDir, outVars, destTar, fi, fromVars, docVars,
                   runVars>>

\* AfterOwnLayer that goes on to the base whatever the base path
AfterOwnLayerAlways(a) == "from"

\* the position after the new layer is written: the base is read only when
\* a base path is given
AfterOwnLayer(a) == IF a.FromPath # <<>> THEN "from" ELSE "compose"

\* the scratch file copied to the blob store
WriteOwnLayer ==
    /\ pc = "writeLayer"
    /\ IF fault = "Seek"
       THEN /\ Panic
            /\ UNCHANGED outVars
       ELSE IF fault = "writeLayer"
       THEN /\ FailedWrite(Join(destDir, blobPath(layerMetas[1].digest)))
            /\ Fail("error writing layer to tar")
            /\ UNCHANGED hashData
       ELSE /\ hashData' = ReaderHashData(hashData, destDir, layerMetas[1].digest,
                                          tmpLayer[2])
            /\ WriteFile(Join(destDir, blobPath(layerMetas[1].digest)), tmpLayer[2])
            /\ pc' = AfterOwnLayer(args)
            /\ UNCHANGED <<tmpLayer, retVars>>
    /\ UNCHANGED <<inputVars, destDir, layerVars, fromVars, docVars, runVars>>

\* the error of opening the base archive and reading its index.json
IndexError(file) ==
    CASE file.index[1] = "nofile" -> "unable to open from image"
      [] file.index[1] = "nottar" -> "unable to open from image as tar"
      [] file.index[1] = "absent" -> "unable to open file index.json in tar"
      [] file.index[1] = "malformed" -> "error unmarshaling index.json as json"
      [] OTHER -> ""

\* the base archive opened and its index.json read
ReadIndex ==
    /\ pc = "from"
    /\ opened' = IF fromFile.index[1] \in {"nofile", "nottar"}
                 THEN Append(opened, args.FromPath)
                 ELSE opened \o <<args.FromPath, <<"index.json">>>>
    /\ IF IndexError(fromFile) # ""
       THEN /\ Fail(IndexError(fromFile))
            /\ index' = index
       ELSE /\ index' = fromFile.index[3].manifests
            /\ pc' = "manifests"
            /\ UNCHANGED <<tmpLayer, retVars>>
    /\ mi' = 1
    /\ UNCHANGED <<inputVars, destDir, outVars, layerVars, manifest, li,
                   fromConfig, docVars, runVars>>

\* an entry of the index that is no image manifest is passed over
SkipEntry ==
    /\ pc = "manifests"
    /\ mi <= Len(index)
    /\ index[mi].mediaType # MediaTypeImageManifest
    /\ mi' = mi + 1
    /\ UNCHANGED <<inputVars, destDir, pc, outVars, tmpLayer, layerVars, opened,
                   index, manifest, li, fromConfig, docVars, retVars, runVars>>

\* AppendBaseLayers that puts the base layers before the new layer
AppendBaseLayersFirst(metas, m) == m.Layers \o metas

\* AppendBaseLayers that appends the base layers last to first
AppendBaseLayersReversed(metas, m) ==
    metas \o [i \in 1..Len(m.Layers) |-> m.Layers[Len(m.Layers) + 1 - i]]

\* layerMetas = append(layerMetas, manifest.Layers...)
AppendBaseLayers(metas, m) == metas \o m.Layers

\* AppendBaseDiffIds that puts the base diffIDs first
PrependBaseDiffIds(ids, config) == config.RootFS.DiffIDs \o ids

\* layerDiffIds = append(layerDiffIds, fromConfig.RootFS.DiffIDs...)
AppendBaseDiffIds(ids, config) == ids \o config.RootFS.DiffIDs

\* an image manifest read and its layer descriptors appended
ReadManifest ==
    /\ pc = "manifests"
    /\ mi <= Len(index)
    /\ index[mi].mediaType = MediaTypeImageManifest
    /\ opened' = Append(opened, blobPath(index[mi].digest))
    /\ IF index[mi].digest \notin DOMAIN fromFile.blobs
       THEN /\ Fail("unable to find manifest referenced in tar index")
            /\ UNCHANGED <<manifest, layerMetas>>
       ELSE IF fromFile.blobs[index[mi].digest][1] # "json"
       THEN /\ Fail("unable to find manifest referenced in tar index")
            /\ UNCHANGED <<manifest, layerMetas>>
       ELSE /\ manifest' = UnmarshalManifest(fromFile.blobs[index[mi].digest])
            /\ layerMetas' = AppendBaseLayers(layerMetas, manifest')
            /\ pc' = "layers"
            /\ UNCHANGED <<tmpLayer, retVars>>
    /\ li' = 1
    /\ UNCHANGED <<inputVars, destDir, outVars, destTar, fi, layerDiffIds, index,
                   mi, fromConfig, docVars, runVars>>

\* one layer of the base manifest copied to the blob store
CopyBaseLayer ==
    /\ pc = "layers"
    /\ li <= Len(manifest.Layers)
    /\ opened' = Append(opened, blobPath(manifest.Layers[li].digest))
    /\ IF manifest.Layers[li].digest \notin DOMAIN fromFile.blobs
       THEN /\ Fail("error opening layer referenced in image manifest")
            /\ UNCHANGED <<outVars, li>>
       ELSE IF fault = "copyLayer"
       THEN /\ FailedWrite(Join(destDir, blobPath(manifest.Layers[li].digest)))
            /\ Fail("error writing layer to tar")
            /\ UNCHANGED <<hashData, li>>
       ELSE /\ hashData' = ReaderHashData(hashData, destDir, manifest.Layers[li].digest,
                                          fromFile.blobs[manifest.Layers[li].digest])
            /\ WriteFile(Join(destDir, blobPath(manifest.Layers[li].digest)),
                         fromFile.blobs[manifest.Layers[li].digest])
            /\ li' = li + 1
            /\ UNCHANGED <<pc, tmpLayer, retVars>>
    /\ UNCHANGED <<inputVars, destDir, layerVars, index, mi, manifest, fromConfig,
                   docVars, runVars>>

\* the config of the base manifest read and its diffIDs appended
ReadBaseConfig ==
    /\ pc = "layers"
    /\ li > Len(manifest.Layers)
    /\ opened' = Append(opened, blobPath(manifest.Config.digest))
    /\ IF manifest.Config.digest \notin DOMAIN fromFile.blobs
       THEN /\ Fail("unable to find config referenced in image manifest")
            /\ fromConfig' = ZeroImage
            /\ UNCHANGED <<layerDiffIds, mi>>
       ELSE /\ fromConfig' = UnmarshalImage(fromFile.blobs[manifest.Config.digest])
            /\ layerDiffIds' = AppendBaseDiffIds(layerDiffIds, fromConfig')
            /\ mi' = mi + 1
            /\ pc' = "manifests"
            /\ UNCHANGED <<tmpLayer, retVars>>
    /\ UNCHANGED <<inputVars, destDir, outVars, destTar, fi, layerMetas, index,
                   manifest, li, docVars, runVars>>

\* the loop over the index is over
ManifestsDone ==
    /\ pc = "manifests"
    /\ mi > Len(index)
    /\ pc' = "compose"
    /\ UNCHANGED <<inputVars, destDir, outVars, tmpLayer, layerVars, fromVars,
                   docVars, retVars, runVars>>

\* the environment, the ports and the image config built
ComposeConfig ==
    /\ pc = "compose"
    /\ rangeOrder' \in Orders(DOMAIN args.AddEnv)
    /\ image' = ComposeImage(args, fromConfig,
                     ComposeEnv(fromConfig.Config.Env, args.ClearEnv, args.AddEnv,
                                rangeOrder'),
                     layerDiffIds)
    /\ imageConfig' = buildJson("image", image')
    /\ pc' = "writeConfig"
    /\ UNCHANGED <<inputVars, destDir, outVars, tmpLayer, layerVars, fromVars,
                   imageManifest, retVars, runVars>>

\* the config blob written, the manifest built
WriteConfig ==
    /\ pc = "writeConfig"
    /\ hashData' = BlobHashData(hashData, destDir, imageConfig.digest, imageConfig.bytes)
    /\ IF fault = "writeConfig"
       THEN /\ FailedWrite(Join(destDir, blobPath(imageConfig.digest)))
            /\ Fail("error writing tar file")
            /\ UNCHANGED imageManifest
       ELSE /\ WriteFile(Join(destDir, blobPath(imageConfig.digest)), imageConfig.bytes)
            /\ imageManifest' = buildJson("manifest",
                                          ComposeManifest(imageConfig, layerMetas))
            /\ pc' = "writeManifest"
            /\ UNCHANGED <<tmpLayer, retVars>>
    /\ UNCHANGED <<inputVars, destDir, layerVars, fromVars, rangeOrder,
                   image, imageConfig, runVars>>

\* the manifest blob written
WriteManifest ==
    /\ pc = "writeManifest"
    /\ hashData' = BlobHashData(hashData, destDir, imageManifest.digest,
                                imageManifest.bytes)
    /\ IF fault = "writeManifest"
       THEN /\ FailedWrite(Join(destDir, blobPath(imageManifest.digest)))
            /\ Fail("error writing tar file")
       ELSE /\ WriteFile(Join(destDir, blobPath(imageManifest.digest)),
                         imageManifest.bytes)
            /\ pc' = "writeIndex"
            /\ UNCHANGED <<tmpLayer, retVars>>
    /\ UNCHANGED <<inputVars, destDir, layerVars, fromVars, docVars, runVars>>

\* index.json written
WriteIndex ==
    /\ pc = "writeIndex"
    /\ hashData' = MemoryHashData(hashData, destDir, <<"index.json">>,
                       canonicalJsonMarshal("index", ComposeIndex(imageManifest)))
    /\ IF fault = "writeIndex"
       THEN /\ FailedWrite(Join(destDir, <<"index.json">>))
            /\ Fail("error writing tar file")
       ELSE /\ WriteFile(Join(destDir, <<"index.json">>),
                         canonicalJsonMarshal("index", ComposeIndex(imageManifest)))
            /\ pc' = "hash"
            /\ UNCHANGED <<tmpLayer, retVars>>
    /\ UNCHANGED <<inputVars, destDir, layerVars, fromVars, docVars, runVars>>

\* the hash returned; the deferred removal of the scratch file runs
Return ==
    /\ pc = "hash"
    /\ hash' = BuildHash(hashData)
    /\ tmpLayer' = <<"removed">>
    /\ pc' = "done"
    /\ UNCHANGED <<inputVars, destDir, outVars, layerVars, fromVars, docVars,
                   err, runVars>>

\* the results a call is remembered by
Result ==
    [destDir |-> destDir, hash |-> hash, config |-> imageConfig.digest,
     manifest |-> imageManifest.digest, rangeOrder |-> rangeOrder]

\* the same build once more, after a build that returned a hash (and main0
\* has pushed the image): main0 in a
\* new temporary directory, its last one removed; a direct call in any
\* directory
NextRun ==
    /\ pc = IF caller = "cli" THEN "pushed" ELSE "done"
    /\ run < MaxRuns
    /\ run' = run + 1
    /\ prev' = Append(prev, Result)
    /\ destDir' \in DestDirs
    /\ pc' = IF caller = "cli" THEN "main0" ELSE "BuildImage"
    /\ disk' = IF caller = "cli"
               THEN [p \in {q \in DOMAIN disk : q[1] # destDir} |-> disk[p]]
               ELSE disk
    /\ hashData' = <<>>
    /\ writes' = <<>>
    /\ tmpLayer' = <<"none">>
    /\ destTar' = <<>>
    /\ fi' = 1
    /\ layerMetas' = <<>>
    /\ layerDiffIds' = <<>>
    /\ opened' = <<>>
    /\ index' = <<>>
    /\ mi' = 1
    /\ manifest' = NoManifest
    /\ li' = 1
    /\ fromConfig' = ZeroImage
    /\ rangeOrder' = <<>>
    /\ image' = ZeroImage
    /\ imageConfig' = NoDoc
    /\ imageManifest' = NoDoc
    /\ hash' = <<>>
    /\ err' = ""
    /\ UNCHANGED inputVars

Next ==
    \/ Main0Rejects \/ Main0Builds \/ Main0Fails \/ Main0Dests
    \/ WriteLayout \/ CreateTemp \/ WriteRootEntry \/ CloseLayer \/ WriteOwnLayer
    \/ ReadIndex \/ SkipEntry \/ ReadManifest \/ CopyBaseLayer \/ ReadBaseConfig
    \/ ManifestsDone
    \/ ComposeConfig \/ WriteConfig \/ WriteManifest \/ WriteIndex \/ Return
    \/ NextRun

Spec == Init /\ [][Next]_vars

----------------------------------------------------------------------------
(* What a finished build left in its output directory, and what the base    *)
(* archive held                                                             *)

\* the documents of the output directory, followed from index.json
WrittenIndex == disk[Join(destDir, <<"index.json">>)][3]
WrittenManifest == disk[Join(destDir, blobPath(WrittenIndex.manifests[1].digest))][3]
WrittenConfig == disk[Join(destDir, blobPath(WrittenManifest.config.digest))][3]
WrittenEnv == WrittenConfig.config.Env
WrittenPorts ==
    {WrittenConfig.config.ExposedPorts[i] : i \in DOMAIN WrittenConfig.config.ExposedPorts}

\* the entries of the base index.json that are image manifests
ImageEntries ==
    IF fromFile.index[1] # "json" THEN {}
    ELSE {i \in DOMAIN fromFile.index[3].manifests :
            fromFile.index[3].manifests[i].mediaType = MediaTypeImageManifest}

\* the build has a base archive that holds exactly one image
OneBase == args.FromPath # <<>> /\ Cardinality(ImageEntries) = 1

\* the manifest and the config of that image
BaseManifest ==
    fromFile.blobs[fromFile.index[3].manifests[CHOOSE i \in ImageEntries : TRUE].digest][3]
BaseConfig == fromFile.blobs[BaseManifest.config.digest][3]

Range(q) == {q[i] : i \in DOMAIN q}
Count(q, x) == Cardinality({i \in DOMAIN q : q[i] = x})

\* the base environment a build starts from
BaseEnvKept ==
    IF args.FromPath = <<>> \/ args.ClearEnv THEN <<>> ELSE BaseConfig.config.Env

\* KEY=VALUE for the pair of key k
Pair(k) == k \o <<"=">> \o args.AddEnv[k]

----------------------------------------------------------------------------
(* Claims *)

\* C1: two builds of the same inputs into the same output directory return
\* the same build hash, the same config digest and the same manifest digest,
\* whatever orders the two ranges over the AddEnv map took.
C1_Determinism ==
    (pc = "done" /\ run = 2 /\ prev[1].destDir = destDir)
    => /\ hash = prev[1].hash
       /\ WrittenManifest.config.digest = prev[1].config
       /\ WrittenIndex.manifests[1].digest = prev[1].manifest

\* two finished builds into one directory whose ranges took different orders
C1_Witness ==
    /\ pc = "done" /\ run = 2 /\ prev[1].destDir = destDir
    /\ prev[1].rangeOrder # rangeOrder
    /\ Cardinality(DOMAIN args.Labels) = 2
    /\ hash = prev[1].hash

\* C2: two builds whose inputs differ in nothing but the output directory
\* return the same build hash.
C2_HashIgnoresDestDir ==
    (pc = "done" /\ run = 2) => hash = prev[1].hash

\* position i of the manifest and of the config name one layer: the
\* descriptor is that of the gzip of the tar stream the diffID is the sum of
SameLayer(desc, diffId) == desc.digest = NewDigest(Gzip(diffId.hex[2]))

\* C3: after every successful build, for every base archive accepted, the
\* manifest's layer list and the config's diffID list have the same length
\* and position i of both refers to the same layer.
C3_LayersAligned ==
    pc = "done"
    => /\ Len(WrittenManifest.layers) = Len(WrittenConfig.rootfs.diff_ids)
       /\ \A i \in DOMAIN WrittenManifest.layers :
            SameLayer(WrittenManifest.layers[i], WrittenConfig.rootfs.diff_ids[i])

\* C4: on a base image of n layers and n diffIDs both lists of the result
\* have length n+1, the new layer first and base layer k at the place after
\* the k-th.
C4_NewLayerFirst ==
    (pc = "done" /\ OneBase
        /\ Len(BaseManifest.layers) = Len(BaseConfig.rootfs.diff_ids))
    => LET n == Len(BaseManifest.layers)
           layers == WrittenManifest.layers
           diffs == WrittenConfig.rootfs.diff_ids
       IN /\ Len(layers) = n + 1
          /\ Len(diffs) = n + 1
          /\ disk[Join(destDir, blobPath(layers[1].digest))]
               = Gzip(TarBytes(destTar, TRUE))
          /\ diffs[1] = NewDigest(TarBytes(destTar, TRUE))
          /\ \A k \in 1..n : /\ layers[k + 1] = BaseManifest.layers[k]
                             /\ diffs[k + 1] = BaseConfig.rootfs.diff_ids[k]

\* a finished build of one file on a base of two different layers
C4_Witness ==
    /\ pc = "done" /\ OneBase
    /\ Len(args.Files) = 1
    /\ Len(BaseManifest.layers) = 2 /\ Len(BaseConfig.rootfs.diff_ids) = 2
    /\ BaseManifest.layers[1] # BaseManifest.layers[2]
    /\ Len(WrittenManifest.layers) = 3

\* C5: with no base path BuildImage reads no base archive, and the result
\* has one manifest layer, one diffID and an environment of the override
\* pairs only, whatever files and directories are added.
C5_Scratch ==
    args.FromPath = <<>>
    => /\ opened = <<>>
       /\ pc = "done"
          => /\ Len(WrittenManifest.layers) = 1
             /\ Len(WrittenConfig.rootfs.diff_ids) = 1
             /\ Len(WrittenEnv) = Cardinality(DOMAIN args.AddEnv)
             /\ Range(WrittenEnv) = {Pair(k) : k \in DOMAIN args.AddEnv}

\* a finished build without a base that added files and directories
C5_Witness ==
    /\ pc = "done" /\ args.FromPath = <<>>
    /\ args.Files # <<>> /\ args.Dirs # <<>>
    /\ Len(destTar) > 2
    /\ WrittenEnv = <<>>

\* C6: without a base image a build whose architecture or OS is empty is
\* rejected with an error, and no image config with an empty architecture
\* or OS is written.
C6_ScratchNeedsPlatform ==
    (args.FromPath = <<>> /\ (args.Architecture = <<>> \/ args.Os = <<>>))
    => /\ pc # "done"
       /\ \A p \in DOMAIN disk :
            (disk[p][1] = "json" /\ disk[p][2] = "image")
            => disk[p][3].architecture # <<>> /\ disk[p][3].os # <<>>

\* C7: the environment of the result is, as a multiset, the base entries
\* (none with ClearEnv) plus one KEY=VALUE per AddEnv pair.
C7_EnvMultiset ==
    (pc = "done" /\ (args.FromPath = <<>> \/ OneBase))
    => \A x \in Range(WrittenEnv) \cup Range(BaseEnvKept)
                  \cup {Pair(k) : k \in DOMAIN args.AddEnv} :
          Count(WrittenEnv, x)
            = Count(BaseEnvKept, x)
              + Cardinality({k \in DOMAIN args.AddEnv : Pair(k) = x})

\* a finished build whose override pair is also an entry of the base: the
\* entry is there twice
C7_Witness ==
    /\ pc = "done" /\ OneBase /\ ~args.ClearEnv
    /\ \E k \in DOMAIN args.AddEnv :
          /\ Count(BaseEnvKept, Pair(k)) = 1
          /\ Count(WrittenEnv, Pair(k)) = 2

\* C8: the environment of the result begins with the base list in its
\* order, and every override pair comes after it.
C8_BaseOrderKept ==
    (pc = "done" /\ (args.FromPath = <<>> \/ OneBase))
    => /\ Len(WrittenEnv) >= Len(BaseEnvKept)
       /\ SubSeq(WrittenEnv, 1, Len(BaseEnvKept)) = BaseEnvKept

\* the port/transport string the documentation gives a port record
C9_Expected(p) ==
    CASE p.Port = 80 /\ p.Transport \in {<<>>, <<"t", "c", "p">>}
           -> <<"8", "0", "/", "t", "c", "p">>
      [] p.Port = 53 /\ p.Transport = <<"u", "d", "p">>
           -> <<"5", "3", "/", "u", "d", "p">>

\* C9: the exposed-port set is the set of port/transport strings of the
\* override ports, an unspecified transport taken as tcp, duplicates as one.
C9_ExposedPorts ==
    pc = "done"
    => WrittenPorts = {C9_Expected(args.Ports[i]) : i \in DOMAIN args.Ports}

\* the ports [{80,tcp},{80,tcp},{53,udp}] built into two members
C9_Witness ==
    /\ pc = "done"
    /\ args.Ports = <<[Port |-> 80, Transport |-> tcp], [Port |-> 80, Transport |-> tcp],
                      [Port |-> 53, Transport |-> udp]>>
    /\ WrittenPorts = {<<"8", "0", "/", "t", "c", "p">>, <<"5", "3", "/", "u", "d", "p">>}

\* C10: entrypoint, cmd, exposed ports, labels and stop signal of the result
\* are the override values; the base's values never appear.
C10_NonInherited ==
    pc = "done"
    => /\ WrittenConfig.config.Entrypoint = args.Entrypoint
       /\ WrittenConfig.config.Cmd = args.Cmd
       /\ WrittenConfig.config.StopSignal = args.StopSignal
       /\ Range(WrittenConfig.config.Labels)
            = {<<k, args.Labels[k]>> : k \in DOMAIN args.Labels}
       /\ Len(WrittenConfig.config.Labels) = Cardinality(DOMAIN args.Labels)
       /\ WrittenPorts = {C9_Expected(args.Ports[i]) : i \in DOMAIN args.Ports}

\* a finished build without a cmd on a base whose cmd is /old
C10_Witness ==
    /\ pc = "done" /\ OneBase
    /\ BaseConfig.config.Cmd = <<<<"/", "o", "l", "d">>>>
    /\ BaseConfig.config.Entrypoint # <<>>
    /\ BaseConfig.config.StopSignal # <<>>
    /\ args.Cmd = <<>> /\ args.Entrypoint = <<>> /\ args.StopSignal = <<>>
    /\ args.Labels = <<>> /\ args.Ports = <<>>
    /\ WrittenConfig.config.Cmd = <<>>

\* the override when it is not empty, the base image's value when it is
OverrideOr(override, base) == IF override # <<>> THEN override ELSE base

\* C11: architecture, OS, working directory and user of the result are the
\* override where it is not empty and the value of the base config where it
\* is.
C11_Inherited ==
    (pc = "done" /\ OneBase)
    => /\ WrittenConfig.architecture
            = OverrideOr(args.Architecture, BaseConfig.architecture)
       /\ WrittenConfig.os = OverrideOr(args.Os, BaseConfig.os)
       /\ WrittenConfig.config.WorkingDir
            = OverrideOr(args.WorkingDir, BaseConfig.config.WorkingDir)
       /\ WrittenConfig.config.User
            = OverrideOr(args.User, BaseConfig.config.User)

\* a finished build that overrides the OS and the user of a base and takes
\* the architecture and the working directory from it
C11_Witness ==
    /\ pc = "done" /\ OneBase
    /\ args.Architecture = <<>> /\ args.Os = linux
    /\ args.WorkingDir = <<>> /\ args.User = <<"u">>
    /\ BaseConfig.architecture = <<"a", "r", "m">>
    /\ BaseConfig.os = <<"b", "s", "d">>
    /\ WrittenConfig.architecture = <<"a", "r", "m">>
    /\ WrittenConfig.os = linux
    /\ WrittenConfig.config.WorkingDir = <<"/", "b">>
    /\ WrittenConfig.config.User = <<"u">>

----------------------------------------------------------------------------
(* The entries of the tree args.Files and args.Dirs describe *)

\* the path of name under parent, the root being the empty path
Under(parent, name) == IF parent = <<>> THEN name ELSE parent \o <<"/">> \o name

RECURSIVE EntriesOf(_, _, _, _)
\* every file and directory entry at and below a level of the tree, with the
\* path of the directory it is in and its depth
EntriesOf(parent, depth, dirs, files) ==
    {[kind |-> "reg", given |-> f.Name, source |-> f.Source, mode |-> f.Mode,
      parent |-> parent, depth |-> depth] : f \in Range(files)}
    \cup UNION {{[kind |-> "dir", given |-> d.Name, source |-> <<>>,
                  mode |-> d.Mode, parent |-> parent, depth |-> depth]}
                \cup EntriesOf(Under(parent, d.Name), depth + 1, d.Dirs, d.Files) :
                d \in Range(dirs)}

AllEntries == EntriesOf(<<>>, 1, args.Dirs, args.Files)

\* the positions of BuildImage up to the end of the loops over the entries
BeforeClose == {"main0", "rejected", "BuildImage", "CreateTemp", "entries", "failed"}

\* no manifest and no index.json is in any output directory
NoManifestNoIndex ==
    \A p \in DOMAIN disk :
        disk[p][1] = "json" => disk[p][2] \notin {"manifest", "index"}

\* C12: a build with an entry, at any depth, whose name has a slash fails:
\* it never gets past the entries, it returns an error, no tar header bears
\* the name, and no manifest and no index.json is written.
C12_SlashRejected ==
    (\E e \in AllEntries : "/" \in Range(e.given))
    => /\ pc \in BeforeClose
       /\ pc = "failed" => (err # "" /\ hash = <<>>)
       /\ NoManifestNoIndex
       /\ \A e \in AllEntries : \A i \in DOMAIN destTar :
             "/" \in Range(e.given) => destTar[i].Name # Under(e.parent, e.given)

\* a build failed on a name with a slash inside a directory whose header was
\* written
C12_Witness ==
    /\ pc = "failed" /\ err = "name contains slashes"
    /\ \E e \in AllEntries : e.depth = 3 /\ "/" \notin Range(e.given)
    /\ \E e \in AllEntries : e.depth = 2 /\ e.kind = "dir" /\ "/" \in Range(e.given)
    /\ Len(destTar) = 2
    /\ NoManifestNoIndex

\* the last element of the source paths of the building system
BaseName(source) ==
    CASE source = <<"/", "s", "/", "f">> -> <<"f">>
      [] source = <<"/", "s", "/", "g">> -> <<"g">>
      [] source = <<"/", "s", "/", "x">> -> <<"x">>
      [] source = <<"/", "e", "/", "c">> -> <<"c">>

\* the path of an entry in the layer
PathOf(e) ==
    Under(e.parent, IF e.kind = "reg" /\ e.given = <<>> THEN BaseName(e.source)
                    ELSE e.given)

\* a mode string that is no octal number: after a sign, no digits or a
\* character that is not one of 0..7
NotOctal(s) ==
    LET body == IF s # <<>> /\ s[1] \in {"+", "-"} THEN Tail(s) ELSE s
    IN body = <<>> \/ \E i \in DOMAIN body : body[i] \notin {"0", "1", "2", "3", "4", "5", "6", "7"}

\* C13: a build with an entry whose mode string is not valid octal fails: it
\* never gets past the entries, it returns an error, the header of that
\* entry is not written, and no manifest and no index.json is written.
C13_BadModeRejected ==
    (\E e \in AllEntries : e.mode # <<>> /\ NotOctal(e.mode))
    => /\ pc \in BeforeClose
       /\ pc = "failed" => (err # "" /\ hash = <<>>)
       /\ NoManifestNoIndex
       /\ \A e \in AllEntries : \A i \in DOMAIN destTar :
             (e.mode # <<>> /\ NotOctal(e.mode) /\ "/" \notin Range(e.given))
             => ~(destTar[i].Typeflag = e.kind /\ destTar[i].Name = PathOf(e))

\* a build failed on the mode of a directory inside a directory whose header
\* was written
C13_Witness ==
    /\ pc = "failed" /\ err = "mode is not valid octal"
    /\ \E e \in AllEntries :
          /\ e.depth = 2 /\ e.kind = "dir" /\ e.mode = <<"r", "w", "x">>
          /\ \E i \in DOMAIN destTar : destTar[i].Name = e.parent
    /\ NoManifestNoIndex

\* the tar headers written for entry e
HeadersOf(e) ==
    {i \in DOMAIN destTar :
        destTar[i].Typeflag = e.kind /\ destTar[i].Name = PathOf(e)}

C15_DirDefault0755 ==
    pc = "done"
    => \A e \in AllEntries :
          (e.kind = "dir" /\ e.mode = <<>>)
          => /\ HeadersOf(e) # {}
             /\ \A i \in HeadersOf(e) : destTar[i].Mode = 493

\* C16: in a finished build every file entry has a tar header whose name is
\* its Name, or without one the last element of its source path, at the
\* root, and parentPath/name inside a directory; no file name begins with a
\* slash and no other file header is written.
C16_FileDestName ==
    pc = "done"
    => /\ \A e \in AllEntries :
            e.kind = "reg"
            => \E i \in DOMAIN destTar :
                  /\ destTar[i].Typeflag = "reg"
                  /\ destTar[i].Name
                       = (IF e.parent = <<>> THEN <<>> ELSE e.parent \o <<"/">>)
                         \o (IF e.given # <<>> THEN e.given ELSE BaseName(e.source))
       /\ \A i \in DOMAIN destTar :
            destTar[i].Typeflag = "reg"
            => /\ destTar[i].Name # <<>> /\ destTar[i].Name[1] # "/"
               /\ \E e \in AllEntries : e.kind = "reg" /\ i \in HeadersOf(e)

\* a finished build with a file named after its source at the root, and
\* inside a directory of a directory a file with a name of its own
C16_Witness ==
    /\ pc = "done"
    /\ \E i, j, k \in DOMAIN destTar :
          /\ destTar[i].Typeflag = "reg" /\ destTar[i].Name = <<"f">>
          /\ destTar[j].Typeflag = "reg" /\ destTar[j].Name = <<"d", "/", "f">>
          /\ destTar[k].Typeflag = "reg"
          /\ destTar[k].Name = <<"d", "/", "e", "/", "g", "2">>
    /\ \E e \in AllEntries : e.depth = 1 /\ e.kind = "reg" /\ e.given = <<>>

\* dest without the slash it begins with
Relative(dest) == IF dest # <<>> /\ dest[1] = "/" THEN Tail(dest) ELSE dest

\* C17: in a finished build of the command line every object of the files
\* array with a dest has a file header at that location, and every object
\* without one has a file header at the root named after its source.
C17_DestField ==
    (caller = "cli" /\ pc = "done")
    => \A k \in DOMAIN configFiles :
          \E i \in DOMAIN destTar :
             /\ destTar[i].Typeflag = "reg"
             /\ destTar[i].Data = SourceFiles[args.Files[k].Source].data
             /\ IF configFiles[k].dest # <<>>
                THEN destTar[i].Name \in {configFiles[k].dest, Relative(configFiles[k].dest)}
                ELSE destTar[i].Name = BaseName(args.Files[k].Source)

\* C18: within one build no path of the blob store is written twice.
C18_WriteOnce ==
    \A i, j \in DOMAIN writes :
        (i < j /\ writes[i][2] = "blobs") => writes[i] # writes[j]

\* C19: in a finished build on a base of one image manifest every layer
\* descriptor of that manifest is in the new manifest unchanged, in base
\* order after the new layer, and the blob at the path of its digest has
\* the bytes the archive holds for it.
C19_BaseLayersCopied ==
    (pc = "done" /\ OneBase)
    => /\ Len(WrittenManifest.layers) = Len(BaseManifest.layers) + 1
       /\ \A k \in DOMAIN BaseManifest.layers :
            /\ WrittenManifest.layers[k + 1] = BaseManifest.layers[k]
            /\ Join(destDir, blobPath(BaseManifest.layers[k].digest)) \in DOMAIN disk
            /\ disk[Join(destDir, blobPath(BaseManifest.layers[k].digest))]
                 = fromFile.blobs[BaseManifest.layers[k].digest]
            /\ disk[Join(destDir, blobPath(BaseManifest.layers[k].digest))][1] = "gz"

\* a finished build on a base of two different layers, both in the store
C19_Witness ==
    /\ pc = "done" /\ OneBase
    /\ Len(BaseManifest.layers) = 2
    /\ BaseManifest.layers[1] # BaseManifest.layers[2]
    /\ WrittenManifest.layers[2] = BaseManifest.layers[1]
    /\ WrittenManifest.layers[3] = BaseManifest.layers[2]
    /\ \A k \in 1..2 :
          disk[Join(destDir, blobPath(BaseManifest.layers[k].digest))]
            = fromFile.blobs[BaseManifest.layers[k].digest]

\* the manifest blobs of the base archive a build has opened
ManifestsRead ==
    {i \in DOMAIN opened :
        \E j \in ImageEntries :
            opened[i] = blobPath(fromFile.index[3].manifests[j].digest)}

\* C20: a finished build on a base archive has read one manifest of it, the
\* one image manifest its index lists, and its layers and diffIDs are the
\* new layer and those of that manifest.
C20_OneBaseManifest ==
    (pc = "done" /\ args.FromPath # <<>>)
    => /\ Cardinality(ImageEntries) = 1
       /\ Cardinality(ManifestsRead) = 1
       /\ Len(WrittenManifest.layers) = Len(BaseManifest.layers) + 1
       /\ Len(WrittenConfig.rootfs.diff_ids) = Len(BaseConfig.rootfs.diff_ids) + 1

\* the documents this call has written that are a manifest or an index
DocsWritten(kinds) ==
    {i \in DOMAIN writes :
        disk[writes[i]][1] = "json" /\ disk[writes[i]][2] \in kinds}

C22_TempRemoved ==
    pc \in {"done", "failed", "panicked", "pushed", "rejected"}
    => tmpLayer[1] \in {"none", "removed"}

\* a build that failed on a missing manifest after it made the scratch file
C22_Witness ==
    /\ pc = "failed" /\ err = "unable to find manifest referenced in tar index"
    /\ Len(writes) = 2
    /\ tmpLayer = <<"removed">>

\* C23: when the hash is computed and returned, every file this call has
\* written to the output directory is a key of the hash data, with the
\* bytes of the file or their sha256 as its value, and the hash is the
\* sha256 of the serialized hash data.
C23_HashDataCovers ==
    pc \in {"hash", "done"}
    => /\ \A i \in DOMAIN writes :
            /\ writes[i] \in DOMAIN hashData
            /\ hashData[writes[i]]
                 \in {<<"bytes", disk[writes[i]]>>, <<"hex", <<"sum", disk[writes[i]]>>>>}
       /\ {Join(destDir, <<"oci-layout">>), Join(destDir, <<"index.json">>)}
            \subseteq Range(writes)
       /\ \A d \in {WrittenIndex.manifests[1], WrittenManifest.config}
                    \cup Range(WrittenManifest.layers) :
            <<destDir, "blobs", d.digest.algorithm, d.digest.hex>> \in Range(writes)
       /\ pc = "done" => hash = <<"hex", <<"sum", <<"json", "hashData", hashData>>>>>>

\* a finished build on a base of two layers: seven files written, all of
\* them in the hash data
C23_Witness ==
    /\ pc = "done" /\ OneBase
    /\ Len(writes) = 7
    /\ \A i \in DOMAIN writes : writes[i] \in DOMAIN hashData
    /\ hash # <<>>

\* the path of the blob a descriptor names, in the output directory
BlobOf(d) == <<destDir, "blobs", d.digest.algorithm, d.digest.hex>>

\* the blob of descriptor d was written by this call before its write j
WrittenBefore(d, j) == \E i \in 1..(j - 1) : writes[i] = BlobOf(d)

\* C24: in every state every manifest the call has written to the output
\* directory has the blobs of its config and of its layers written before
\* it, and index.json the manifest before it; a finished build has written oci-layout, the new layer, the base
\* layers in manifest order, the config, the manifest and index.json, in
\* this order, and every descriptor reachable from index.json has its blob.
C24_WriteOrder ==
    /\ \A j \in {i \in DOMAIN writes : writes[i] \in DOMAIN disk} :
          LET doc == disk[writes[j]]
          IN /\ (doc[1] = "json" /\ doc[2] = "manifest")
                => \A d \in {doc[3].config} \cup Range(doc[3].layers) :
                      WrittenBefore(d, j)
             /\ (doc[1] = "json" /\ doc[2] = "index")
                => \A d \in Range(doc[3].manifests) : WrittenBefore(d, j)
    /\ pc = "done"
       => /\ writes = <<Join(destDir, <<"oci-layout">>)>>
                       \o [k \in DOMAIN WrittenManifest.layers |->
                             BlobOf(WrittenManifest.layers[k])]
                       \o <<BlobOf(WrittenManifest.config),
                            BlobOf(WrittenIndex.manifests[1]),
                            Join(destDir, <<"index.json">>)>>
          /\ writes[2] = <<destDir, "blobs", "sha256",
                           <<"sum", <<"gz", <<"tar", destTar, TRUE>>>>>>>>
          /\ OneBase => \A k \in DOMAIN BaseManifest.layers :
                           writes[k + 2] = BlobOf(BaseManifest.layers[k])
          /\ \A d \in {WrittenIndex.manifests[1], WrittenManifest.config}
                       \cup Range(WrittenManifest.layers) :
                BlobOf(d) \in DOMAIN disk

\* a finished build on a base of two different layers, written second and
\* first of the base
C24_Witness ==
    /\ pc = "done" /\ OneBase
    /\ Len(BaseManifest.layers) = 2
    /\ BaseManifest.layers[1] # BaseManifest.layers[2]
    /\ Len(writes) = 7
    /\ writes[3] = BlobOf(BaseManifest.layers[1])
    /\ writes[4] = BlobOf(BaseManifest.layers[2])
    /\ writes[7] = Join(destDir, <<"index.json">>)

RECURSIVE DirsInOrder(_, _)
RECURSIVE FilesInOrder(_, _)

\* the kind and path of the entries of a list of files, in list order
FilesInOrder(parent, files) ==
    IF files = <<>> THEN <<>>
    ELSE <<<<"reg", Under(parent, IF Head(files).Name = <<>>
                                  THEN BaseName(Head(files).Source)
                                  ELSE Head(files).Name)>>>>
         \o FilesInOrder(parent, Tail(files))

\* the kind and path of the entries of a list of directories: each directory,
\* then its directories, then its files
DirsInOrder(parent, dirs) ==
    IF dirs = <<>> THEN <<>>
    ELSE LET d == Head(dirs)
         IN <<<<"dir", Under(parent, d.Name)>>>>
            \o DirsInOrder(Under(parent, d.Name), d.Dirs)
            \o FilesInOrder(Under(parent, d.Name), d.Files)
            \o DirsInOrder(parent, Tail(dirs))

\* C25: the layer of a finished build has exactly one tar header for every
\* entry of args: the root files in list order, then the root directories
\* in list order, each directory's header followed by its child directories,
\* recursively, and then by its child files.
C25_EntryOrder ==
    pc = "done"
    => [i \in DOMAIN destTar |-> <<destTar[i].Typeflag, destTar[i].Name>>]
       = FilesInOrder(<<>>, args.Files) \o DirsInOrder(<<>>, args.Dirs)

\* a finished build with two root files and a directory that holds a
\* directory with a file, and a file
C25_Witness ==
    /\ pc = "done"
    /\ Len(args.Files) = 2 /\ args.Files[1] # args.Files[2]
    /\ Len(args.Dirs) = 1
    /\ Len(args.Dirs[1].Dirs) = 1 /\ Len(args.Dirs[1].Files) = 1
    /\ Len(args.Dirs[1].Dirs[1].Files) = 1
    /\ Len(destTar) = 6
    /\ destTar[3].Typeflag = "dir" /\ destTar[4].Typeflag = "dir"
    /\ destTar[5].Name = <<"d", "/", "e", "/", "g", "2">>
    /\ destTar[6].Name = <<"d", "/", "f">>

\* C26: the digests of the new layer are those of the finished streams: when
\* they are taken the scratch file holds the gzip of the closed tar stream,
\* the layer digest is the digest of the scratch file and the diffID the
\* digest of the whole tar stream with its trailer; in a finished build the
\* blob of the first layer is that gzip stream, its descriptor carries the
\* digest and the length of the blob, and the first diffID is the digest of
\* the closed tar stream.
C26_DoubleDigest ==
    LET stream == <<"tar", destTar, TRUE>>
    IN /\ (layerMetas # <<>> /\ tmpLayer[1] = "file")
          => /\ tmpLayer[2] = <<"gz", stream>>
             /\ layerMetas[1].digest = [algorithm |-> "sha256",
                                        hex |-> <<"sum", tmpLayer[2]>>]
             /\ layerMetas[1].size = <<"len", tmpLayer[2]>>
             /\ layerDiffIds[1] = [algorithm |-> "sha256", hex |-> <<"sum", stream>>]
       /\ pc = "done"
          => LET own == WrittenManifest.layers[1]
             IN /\ BlobOf(own) \in DOMAIN disk
                /\ disk[BlobOf(own)] = <<"gz", stream>>
                /\ own.digest.hex = <<"sum", disk[BlobOf(own)]>>
                /\ own.size = <<"len", disk[BlobOf(own)]>>
                /\ WrittenConfig.rootfs.diff_ids[1].hex = <<"sum", stream>>
                /\ own.digest # WrittenConfig.rootfs.diff_ids[1]

\* a finished build whose layer holds a file with data
C26_Witness ==
    /\ pc = "done"
    /\ \E i \in DOMAIN destTar : destTar[i].Typeflag = "reg" /\ destTar[i].Size > 0
    /\ disk[BlobOf(WrittenManifest.layers[1])] = <<"gz", <<"tar", destTar, TRUE>>>>
    /\ WrittenConfig.rootfs.diff_ids[1].hex = <<"sum", <<"tar", destTar, TRUE>>>>

\* the files of the blob store of the output directory
BlobFiles ==
    {p \in DOMAIN disk : Len(p) = 4 /\ p[1] = destDir /\ p[2] = "blobs"}

\* C27: in a finished build every file of the blob store has content whose
\* digest is its name, and every descriptor of index.json and of the
\* manifest carries the byte length of the file it names.
C27_ContentAddressed ==
    pc = "done"
    => /\ \A p \in BlobFiles :
             p[3] = "sha256" /\ p[4] = <<"sum", disk[p]>>
       /\ \A d \in {WrittenIndex.manifests[1], WrittenManifest.config}
                    \cup Range(WrittenManifest.layers) :
             /\ BlobOf(d) \in DOMAIN disk
             /\ d.size = <<"len", disk[BlobOf(d)]>>

\* C28: BuildImage returns a hash exactly when it returns no error: a
\* finished call has no error and a hash of 64 characters, all lowercase
\* hexadecimal digits, a failed call has an error and the empty string; main0
\* slices the first 8 characters only of the hash of a finished call, so it
\* never panics on the slice, and it returns the error of a failed call.
C28_HashOrError ==
    /\ pc \in {"done", "pushed"}
       => /\ err = ""
          /\ hash # <<>> /\ hash[1] = "hex"
          /\ HashLen(hash) = 64
          /\ HashChars(hash) \subseteq
               {"0", "1", "2", "3", "4", "5", "6", "7", "8", "9",
                "a", "b", "c", "d", "e", "f"}
    /\ pc = "failed" => (err # "" /\ hash = <<>> /\ HashLen(hash) = 0)
    /\ pc \in {"done", "failed"} => (hash # <<>> <=> err = "")
    /\ pc = "pushed" => (caller = "cli" /\ HashLen(hash) >= 8)
    /\ pc = "panicked" => fault = "Seek"
    /\ (pc = "rejected" /\ writes # <<>>) => (err # "" /\ hash = <<>>)

\* main0 has sliced the hash of a finished build of a file on a base
C28_Witness ==
    /\ pc = "pushed" /\ caller = "cli"
    /\ err = "" /\ HashLen(hash) = 64
    /\ args.FromPath # <<>> /\ Len(destTar) = 1

\* C29: every mode in a tar header of the layer is within 0 and octal 7777
\* (4095), and a build with a mode string that gives a negative number or
\* one above octal 7777 does not finish.
C29_ModeInRange ==
    /\ \A i \in DOMAIN destTar : destTar[i].Mode \in 0..4095
    /\ pc = "done"
       => \A e \in AllEntries :
             e.mode # <<>> => ParseInt(e.mode).val \in 0..4095

\* C30: in the layer of a finished build every tar header has a path that
\* is not empty, and no two headers have the same path.
C30_PathsDistinct ==
    pc = "done"
    => /\ \A i \in DOMAIN destTar : destTar[i].Name # <<>>
       /\ \A i, j \in DOMAIN destTar :
             i # j => destTar[i].Name # destTar[j].Name

====
